---------------------------- MODULE Spec2Model ----------------------------
(***************************************************************************)
(* Model of FindBandRatio (code/notebooks/band_ratio.py): one call of      *)
(* find_ratio on one raw table of (wavelength, reflectance) samples.       *)
(*                                                                         *)
(* Wavelengths are held in thousandths of a micron (1.4 micron = 1400), so *)
(* that the comparisons of the code (>=, <, ==) are comparisons of         *)
(* integers.  Slopes, intercepts, line values, areas and the ratio are     *)
(* exact rationals [n, d] in lowest terms; the IEEE rounding of the        *)
(* float64 arithmetic is not modelled.                                     *)
(*                                                                         *)
(* A pandas frame is a sequence of row records; the position of a row      *)
(* minus one is its (reset) index label.                                   *)
(***************************************************************************)
EXTENDS Integers, Sequences, FiniteSets

VARIABLES self, df_spectrum_orig, df_spectrum, ind_max, df_spectrum_165,
          area_total, area_165, ratio, plots, ret, err, pc

vars == <<self, df_spectrum_orig, df_spectrum, ind_max, df_spectrum_165,
          area_total, area_165, ratio, plots, ret, err, pc>>

(***************************************************************************)
(* Bounds of the model and the sample values the raw tables are built of.  *)
(***************************************************************************)
MaxLen == 3

Wavelengths == {1390, 1400, 1500, 1626, 1650, 1680, 1690}

Reflectances == {0, 1}

(***************************************************************************)
(* FindBandRatio.__init__: the window and the start of the feature.        *)
(***************************************************************************)
min_micron == 1400

max_micron == 1690

min_micron_165 == 1626

color_full_area == "purple"

color_165_area == "green"

(***************************************************************************)
(* Exact rational arithmetic standing for float64.                         *)
(***************************************************************************)
Abs(x) == IF x < 0 THEN -x ELSE x

RECURSIVE GCD(_, _)
GCD(a, b) == IF b = 0 THEN a ELSE GCD(b, a % b)

Rat(n, d) ==
    LET g == GCD(Abs(n), Abs(d))
        s == IF d < 0 THEN -1 ELSE 1
    IN  [n |-> (s * n) \div g, d |-> (s * d) \div g]

RatInt(k) == [n |-> k, d |-> 1]

RatAdd(p, q) == Rat(p.n * q.d + q.n * p.d, p.d * q.d)

RatSub(p, q) == Rat(p.n * q.d - q.n * p.d, p.d * q.d)

RatMul(p, q) == Rat(p.n * q.n, p.d * q.d)

RatHalf(p) == Rat(p.n, 2 * p.d)

\* The value of a name not yet bound (no area, no ratio computed).
Unbound == [n |-> 0, d |-> 0]

(***************************************************************************)
(* find_slope_intercept: the line through the first and the last row.      *)
(* iloc[0] of an empty frame raises IndexError; linregress raises          *)
(* ValueError when the two x values are identical.                         *)
(***************************************************************************)
NoError == [type |-> "none", line |-> 0]

find_slope_intercept_error(df) ==
    IF Len(df) = 0 THEN [type |-> "IndexError", line |-> 58]
    ELSE IF df[1].wavelength = df[Len(df)].wavelength
         THEN [type |-> "ValueError", line |-> 63]
         ELSE NoError

find_slope_intercept(df) ==
    LET wavelength_start == df[1].wavelength
        wavelength_stop == df[Len(df)].wavelength
        reflectance_start == df[1].reflectance
        reflectance_stop == df[Len(df)].reflectance
        slope == Rat(reflectance_stop - reflectance_start,
                     wavelength_stop - wavelength_start)
        intercept == RatSub(RatInt(reflectance_start),
                            RatMul(slope, RatInt(wavelength_start)))
    IN  [slope |-> slope, intercept |-> intercept]

\* slope * df[wl] + intercept for one row (y = mx + b)
LineValue(fit, w) == RatAdd(RatMul(fit.slope, RatInt(w)), fit.intercept)

(***************************************************************************)
(* np.trapz(y, x): sum of (x[i+1] - x[i]) * (y[i] + y[i+1]) / 2; zero for  *)
(* fewer than two rows.  find_area: area below the line minus area below   *)
(* the reflectance points.                                                 *)
(***************************************************************************)
RECURSIVE TrapzUpTo(_, _, _)
TrapzUpTo(y, x, k) ==
    IF k < 2 THEN RatInt(0)
    ELSE RatAdd(TrapzUpTo(y, x, k - 1),
                RatMul(RatInt(x[k] - x[k - 1]), RatHalf(RatAdd(y[k - 1], y[k]))))

trapz(y, x) == TrapzUpTo(y, x, Len(x))

find_area(df) ==
    LET wl == [i \in 1..Len(df) |-> df[i].wavelength]
        area_below_line == trapz([i \in 1..Len(df) |-> df[i].line], wl)
        area_below_point ==
            trapz([i \in 1..Len(df) |-> RatInt(df[i].reflectance)], wl)
    IN  RatSub(area_below_line, area_below_point)

(***************************************************************************)
(* process_spectrum_dataframe                                              *)
(***************************************************************************)
\* a window closed at max_micron, in place of the half-open one
InWindowClosed(slf, w) == w >= slf.min_micron /\ w <= slf.max_micron

\* (df[wl] >= min_micron) & (df[wl] < max_micron), for one wavelength
InWindow(slf, w) == w >= slf.min_micron /\ w < slf.max_micron

\* the rows of a raw frame with their labels 0, 1, ...
Labelled(df) ==
    [i \in 1..Len(df) |-> [index |-> i - 1,
                           wavelength |-> df[i].wavelength,
                           reflectance |-> df[i].reflectance]]

\* df[mask]: the selected rows, each keeping its label of the raw frame
\* (reset_index then moves the label into the column index)
FilterWindow(slf, df) ==
    SelectSeq(Labelled(df), LAMBDA r : InWindow(slf, r.wavelength))

\* the sort key: by wavelength, then by reflectance, ascending
KeyLeq(a, b) ==
    \/ a.wavelength < b.wavelength
    \/ a.wavelength = b.wavelength /\ a.reflectance <= b.reflectance

\* r goes after every row whose key is not greater: rows of equal key
\* keep the order they had (pandas sorts several columns with a stable
\* lexsort)
RECURSIVE InsertSorted(_, _)
InsertSorted(r, s) ==
    IF s = <<>> THEN <<r>>
    ELSE IF KeyLeq(s[Len(s)], r) THEN Append(s, r)
         ELSE Append(InsertSorted(r, SubSeq(s, 1, Len(s) - 1)), s[Len(s)])

RECURSIVE SortUpTo(_, _)
SortUpTo(s, k) ==
    IF k = 0 THEN <<>> ELSE InsertSorted(s[k], SortUpTo(s, k - 1))

sort_values(s) == SortUpTo(s, Len(s))

\* the new column: slope * wavelength + intercept on every row
WithLine(df) ==
    LET fit == find_slope_intercept(df)
    IN  [i \in 1..Len(df) |->
            [index |-> df[i].index,
             wavelength |-> df[i].wavelength,
             reflectance |-> df[i].reflectance,
             line |-> LineValue(fit, df[i].wavelength)]]

\* the columns wavelength and reflectance alone
RawColumns(df) ==
    [i \in 1..Len(df) |->
        [wavelength |-> df[i].wavelength, reflectance |-> df[i].reflectance]]

\* sort_values(inplace=True) applied to the frame that was passed in
ArgSortedInPlace(slf, df) == RawColumns(sort_values(Labelled(df)))

\* The frame the caller passed, after the call: the boolean-mask selection
\* builds a new frame, and the in-place sort and reset work on that one.
ArgAfterCall(slf, df) == df

process_spectrum_dataframe(slf, df) ==
    LET sorted == sort_values(FilterWindow(slf, df))
        e == find_slope_intercept_error(sorted)
    IN  IF e # NoError
        THEN [err |-> e, df |-> <<>>]
        ELSE [err |-> NoError, df |-> WithLine(sorted)]

(***************************************************************************)
(* process_165_feature_dataframe                                           *)
(***************************************************************************)
\* df.index of a processed frame: 0, 1, ...
Labels(df) == [i \in 1..Len(df) |-> i - 1]

\* df[df[wl] == min_micron_165].index : the labels of the exact matches
ExactIndexList(slf, df) ==
    SelectSeq(Labels(df), LAMBDA i : df[i + 1].wavelength = slf.min_micron_165)

\* the fallback looking below min_micron, the start of the window
FallbackOnWindowStart(slf, df) ==
    SelectSeq(Labels(df), LAMBDA i : df[i + 1].wavelength < slf.min_micron)

\* the fallback looking after the start of the feature
FallbackAbove(slf, df) ==
    SelectSeq(Labels(df), LAMBDA i : df[i + 1].wavelength > slf.min_micron_165)

\* df[df[wl] < min_micron_165].index : the labels before the feature
FallbackIndexList(slf, df) ==
    SelectSeq(Labels(df), LAMBDA i : df[i + 1].wavelength < slf.min_micron_165)

\* the test counting the entries of ind_list that are > 0
CountPositive(ind_list) ==
    Cardinality({i \in 1..Len(ind_list) : ind_list[i] > 0}) # 0

\* len(ind_list > 0): the length of the boolean array ind_list > 0, which
\* is the length of ind_list; the test is its truth value
HasExactMatch(ind_list) ==
    LET mask == [i \in 1..Len(ind_list) |-> ind_list[i] > 0]
    IN  Len(mask) # 0

\* ind_list[0]
FirstIndex(ind_list) == ind_list[1]

\* ind_list[-1]
LastIndex(ind_list) == ind_list[Len(ind_list)]

\* The boundary index, or IndexError when both index lists are empty.
SelectBoundary(slf, df) ==
    LET exact == ExactIndexList(slf, df)
        below == FallbackIndexList(slf, df)
    IN  IF HasExactMatch(exact)
        THEN [err |-> NoError, ind_max |-> LastIndex(exact)]
        ELSE IF Len(below) = 0
             THEN [err |-> [type |-> "IndexError", line |-> 176], ind_max |-> -1]
             ELSE [err |-> NoError, ind_max |-> LastIndex(below)]

\* df[df.index > ind_max]: the suffix without the boundary row
RowsAfter(df, i_max) ==
    LET keep == {k \in 1..Len(df) : k - 1 > i_max}
        first == i_max + 2
    IN  [j \in 1..Cardinality(keep) |->
            [level_0 |-> first + j - 2,
             index |-> df[first + j - 1].index,
             wavelength |-> df[first + j - 1].wavelength,
             reflectance |-> df[first + j - 1].reflectance]]

\* df[df.index >= ind_max].drop(line).reset_index(): the old labels go to
\* the column level_0, the column index being taken already
FeatureRows(df, i_max) ==
    LET keep == {k \in 1..Len(df) : k - 1 >= i_max}
        first == i_max + 1
    IN  [j \in 1..Cardinality(keep) |->
            [level_0 |-> first + j - 2,
             index |-> df[first + j - 1].index,
             wavelength |-> df[first + j - 1].wavelength,
             reflectance |-> df[first + j - 1].reflectance]]

WithLine165(df) ==
    LET fit == find_slope_intercept(df)
    IN  [i \in 1..Len(df) |->
            [level_0 |-> df[i].level_0,
             index |-> df[i].index,
             wavelength |-> df[i].wavelength,
             reflectance |-> df[i].reflectance,
             line |-> LineValue(fit, df[i].wavelength)]]

process_165_feature_dataframe(slf, df) ==
    LET b == SelectBoundary(slf, df)
        rows == FeatureRows(df, b.ind_max)
        e == find_slope_intercept_error(rows)
    IN  IF b.err # NoError
        THEN [err |-> b.err, ind_max |-> -1, df |-> <<>>]
        ELSE IF e # NoError
             THEN [err |-> e, ind_max |-> b.ind_max, df |-> <<>>]
             ELSE [err |-> NoError, ind_max |-> b.ind_max, df |-> WithLine165(rows)]

(***************************************************************************)
(* find_ratio, one stage per step                                          *)
(***************************************************************************)
\* area_165 / area_total on numpy.float64: a zero divisor gives nan or an
\* infinity (with a RuntimeWarning), never an exception
Divide(a, b) ==
    IF b.n = 0
    THEN IF a.n = 0 THEN [kind |-> "nan", n |-> 0, d |-> 0]
         ELSE IF a.n > 0 THEN [kind |-> "inf", n |-> 0, d |-> 0]
              ELSE [kind |-> "-inf", n |-> 0, d |-> 0]
    ELSE LET q == Rat(a.n * b.d, a.d * b.n)
         IN  [kind |-> "finite", n |-> q.n, d |-> q.d]

NoRatio == [kind |-> "unbound", n |-> 0, d |-> 0]

\* what the call has handed back to its caller
NotReturned == [kind |-> "pending", ratio |-> NoRatio]

ReturnedNone == [kind |-> "None", ratio |-> NoRatio]

\* one plot_spectrum call: what is drawn and in which color
PlotCall(df, color) == [color |-> color, rows |-> Len(df)]

RawTables ==
    UNION {[1..n -> [wavelength : Wavelengths, reflectance : Reflectances]] :
              n \in 0..MaxLen}

Init ==
    /\ self = [min_micron |-> min_micron, max_micron |-> max_micron,
               min_micron_165 |-> min_micron_165]
    /\ df_spectrum_orig \in RawTables
    /\ df_spectrum = <<>>
    /\ ind_max = -1
    /\ df_spectrum_165 = <<>>
    /\ area_total = Unbound
    /\ area_165 = Unbound
    /\ ratio = NoRatio
    /\ plots = <<>>
    /\ ret = NotReturned
    /\ err = NoError
    /\ pc = "process_spectrum"

\* df_spectrum = self.process_spectrum_dataframe(df_spectrum_orig)
ProcessSpectrum ==
    /\ pc = "process_spectrum"
    /\ LET r == process_spectrum_dataframe(self, df_spectrum_orig)
       IN  /\ df_spectrum' = r.df
           /\ err' = r.err
           /\ pc' = IF r.err = NoError THEN "process_165" ELSE "raised"
    /\ df_spectrum_orig' = ArgAfterCall(self, df_spectrum_orig)
    /\ UNCHANGED <<self, ind_max, df_spectrum_165, area_total, area_165,
                   ratio, plots, ret>>

\* df_spectrum_165 = self.process_165_feature_dataframe(df_spectrum)
Process165 ==
    /\ pc = "process_165"
    /\ LET r == process_165_feature_dataframe(self, df_spectrum)
       IN  /\ df_spectrum_165' = r.df
           /\ ind_max' = r.ind_max
           /\ err' = r.err
           /\ pc' = IF r.err = NoError THEN "find_area" ELSE "raised"
    /\ UNCHANGED <<self, df_spectrum_orig, df_spectrum, area_total, area_165,
                   ratio, plots, ret>>

\* area_total = self.find_area(df_spectrum);
\* area_165 = self.find_area(df_spectrum_165)
FindAreas ==
    /\ pc = "find_area"
    /\ area_total' = find_area(df_spectrum)
    /\ area_165' = find_area(df_spectrum_165)
    /\ pc' = "ratio"
    /\ UNCHANGED <<self, df_spectrum_orig, df_spectrum, ind_max,
                   df_spectrum_165, ratio, plots, ret, err>>

\* ratio = area_165 / area_total
ComputeRatio ==
    /\ pc = "ratio"
    /\ ratio' = Divide(area_165, area_total)
    /\ pc' = "plot"
    /\ UNCHANGED <<self, df_spectrum_orig, df_spectrum, ind_max,
                   df_spectrum_165, area_total, area_165, plots, ret, err>>

\* plt.figure(); plot_spectrum twice; labels, title, plt.show(); the
\* function ends without a return statement, so the caller gets None
PlotAndReturn ==
    /\ pc = "plot"
    /\ plots' = plots \o <<PlotCall(df_spectrum, color_full_area),
                           PlotCall(df_spectrum_165, color_165_area)>>
    /\ ret' = ReturnedNone
    /\ pc' = "done"
    /\ UNCHANGED <<self, df_spectrum_orig, df_spectrum, ind_max,
                   df_spectrum_165, area_total, area_165, ratio, err>>

Next ==
    \/ ProcessSpectrum
    \/ Process165
    \/ FindAreas
    \/ ComputeRatio
    \/ PlotAndReturn

Spec == Init /\ [][Next]_vars

(***************************************************************************)
(* The failures of the stages, by the exception the code raises and the    *)
(* line that raises it.                                                    *)
(***************************************************************************)
\* iloc[0] on the empty windowed frame
EmptyWindowError == err = [type |-> "IndexError", line |-> 58]

\* linregress on two identical x values
DegenerateBaselineError == err = [type |-> "ValueError", line |-> 63]

\* ind_list[-1] on the empty fallback index list
NoFeatureBoundaryError == err = [type |-> "IndexError", line |-> 176]

\* an exception out of find_area (np.trapz raises none)
InsufficientSamplesError == err.line \in 107..111

\* an exception out of the division of the two areas (float64 raises none)
UndefinedRatioError == err.line = 220

(***************************************************************************)
(* Vocabulary of the properties                                            *)
(***************************************************************************)
Samples(df) == [i \in 1..Len(df) |-> <<df[i].wavelength, df[i].reflectance>>]

Band(df) ==
    [i \in 1..Len(df) |-> <<df[i].wavelength, df[i].reflectance, df[i].line>>]

DistinctWavelengths(df) == {df[i].wavelength : i \in 1..Len(df)}

\* the samples of the raw table that lie in [min_micron, max_micron)
WindowOf(df) ==
    SelectSeq(df, LAMBDA r : r.wavelength >= min_micron /\ r.wavelength < max_micron)

IsSorted(df) == \A i \in 1..(Len(df) - 1) : KeyLeq(df[i], df[i + 1])

\* the windowed samples of the raw table in ascending order, as a raw table
WindowedSorted(df) ==
    RawColumns(sort_values(Labelled(WindowOf(df))))

SetMax(S) == CHOOSE m \in S : \A x \in S : x <= m

ExactSet(df) == {i \in 0..(Len(df) - 1) : df[i + 1].wavelength = min_micron_165}

BelowSet(df) == {i \in 0..(Len(df) - 1) : df[i + 1].wavelength < min_micron_165}

\* process_spectrum_dataframe has returned a band
BandBuilt == df_spectrum # <<>>

\* process_165_feature_dataframe has run on the band
Acted165 == BandBuilt /\ pc \in {"find_area", "ratio", "plot", "done", "raised"}

AreasBound == area_total # Unbound

Finished == pc \in {"done", "raised"}

(***************************************************************************)
(* C1: on every input on which all stages succeed and the full-band area   *)
(* is not zero, find_ratio hands back to its caller area_feature /         *)
(* area_full, where area_full = find_area(process_spectrum_dataframe(raw)) *)
(* and area_feature = find_area(process_165_feature_dataframe(full band)). *)
(***************************************************************************)
C1_ReturnsRatio ==
    (pc = "done" /\ area_total.n # 0) =>
        LET full == process_spectrum_dataframe(self, df_spectrum_orig).df
            feature == process_165_feature_dataframe(self, full).df
        IN  /\ ret.kind = "value"
            /\ ret.ratio = Divide(find_area(feature), find_area(full))

(***************************************************************************)
(* C2: when the full-band area is exactly zero, find_ratio ends in an      *)
(* explicit UndefinedRatioError and never yields an infinite or NaN ratio. *)
(***************************************************************************)
C2_ZeroAreaRaises ==
    (AreasBound /\ area_total.n = 0) =>
        /\ ratio.kind \notin {"nan", "inf", "-inf"}
        /\ pc # "ratio" => (pc = "raised" /\ UndefinedRatioError)

(***************************************************************************)
(* C3: on a processed full band the boundary is the last index whose       *)
(* wavelength equals feature_start_micron when such an index exists, and   *)
(* otherwise the last index whose wavelength is strictly below it; also    *)
(* with several rows at the boundary wavelength and with the exact match   *)
(* at index 0.                                                             *)
(***************************************************************************)
C3_BoundarySelection ==
    Acted165 =>
        /\ IsSorted(df_spectrum)
        /\ ExactSet(df_spectrum) # {} => ind_max = SetMax(ExactSet(df_spectrum))
        /\ (ExactSet(df_spectrum) = {} /\ BelowSet(df_spectrum) # {})
              => ind_max = SetMax(BelowSet(df_spectrum))

\* two rows at the boundary wavelength, the first of them at index 0
C3_Witness ==
    /\ Acted165
    /\ ExactSet(df_spectrum) = {0, 1}
    /\ ind_max = 1

(***************************************************************************)
(* C4: a feature sub-band that process_165_feature_dataframe returns is a  *)
(* non-empty contiguous suffix of the full band: the same samples in the   *)
(* same order, from the boundary index through the last sample.            *)
(***************************************************************************)
C4_FeatureIsSuffix ==
    df_spectrum_165 # <<>> =>
        /\ ind_max \in 0..(Len(df_spectrum) - 1)
        /\ Samples(df_spectrum_165) =
              SubSeq(Samples(df_spectrum), ind_max + 1, Len(df_spectrum))

\* a proper suffix that starts inside the band
C4_Witness ==
    /\ df_spectrum_165 # <<>>
    /\ ind_max > 0
    /\ Len(df_spectrum_165) >= 2

(***************************************************************************)
(* C5 as stated: an input whose window holds only samples strictly below   *)
(* feature_start_micron ends in NoFeatureBoundaryError at the boundary     *)
(* detection: no boundary index is selected, no sub-band is built.         *)
(***************************************************************************)
OnlyBelow(df) ==
    /\ WindowOf(df) # <<>>
    /\ \A i \in 1..Len(WindowOf(df)) : WindowOf(df)[i].wavelength < min_micron_165

OnlyAbove(df) ==
    /\ WindowOf(df) # <<>>
    /\ \A i \in 1..Len(WindowOf(df)) : WindowOf(df)[i].wavelength > min_micron_165

C5_OnlyBelowRaisesNoBoundary ==
    (OnlyBelow(df_spectrum_orig) /\ Finished) =>
        /\ NoFeatureBoundaryError
        /\ ind_max = -1
        /\ df_spectrum_165 = <<>>

(***************************************************************************)
(* C5 amended: an input whose window holds samples of at least two         *)
(* wavelengths, all strictly above feature_start_micron, ends in           *)
(* NoFeatureBoundaryError at the boundary detection, with no boundary      *)
(* index and no sub-band.  An input whose window holds only samples        *)
(* strictly below feature_start_micron ends in the degenerate line fit:    *)
(* of the one-row sub-band that starts at the last index of the band, or   *)
(* of the band itself when all its samples share one wavelength.           *)
(***************************************************************************)
C5_OnlyAboveRaisesNoBoundary ==
    /\ (/\ OnlyAbove(df_spectrum_orig)
        /\ Cardinality(DistinctWavelengths(WindowOf(df_spectrum_orig))) >= 2
        /\ pc \notin {"process_spectrum", "process_165"})
          => /\ pc = "raised"
             /\ NoFeatureBoundaryError
             /\ ind_max = -1
             /\ df_spectrum_165 = <<>>
    /\ (OnlyBelow(df_spectrum_orig) /\ pc \notin {"process_spectrum", "process_165"})
          => /\ pc = "raised"
             /\ DegenerateBaselineError
             /\ df_spectrum_165 = <<>>
             /\ BandBuilt => ind_max = Len(df_spectrum) - 1

\* two wavelengths above the start of the feature, and the fallback list empty
C5_Witness ==
    /\ OnlyAbove(df_spectrum_orig)
    /\ BandBuilt
    /\ NoFeatureBoundaryError

(***************************************************************************)
(* C6: with exactly two samples in the window, one below                   *)
(* feature_start_micron and the other at or above it, the run raises       *)
(* neither NoFeatureBoundaryError nor InsufficientSamplesError: a boundary *)
(* is found, and every table that is integrated has two wavelengths.       *)
(***************************************************************************)
TwoSampleCase(df) ==
    LET w == WindowOf(df)
    IN  /\ Len(w) = 2
        /\ \E i, j \in 1..2 :
              /\ i # j
              /\ w[i].wavelength < min_micron_165
              /\ w[j].wavelength >= min_micron_165

C6_TwoSamplesNoBoundaryError ==
    TwoSampleCase(df_spectrum_orig) =>
        /\ ~NoFeatureBoundaryError
        /\ ~InsufficientSamplesError
        /\ ~EmptyWindowError
        /\ Acted165 => ind_max \in 0..1
        /\ AreasBound =>
              /\ Cardinality(DistinctWavelengths(df_spectrum)) >= 2
              /\ Cardinality(DistinctWavelengths(df_spectrum_165)) >= 2

\* the two-sample run that goes through both integrations
C6_Witness ==
    /\ TwoSampleCase(df_spectrum_orig)
    /\ AreasBound
    /\ pc = "done"

(***************************************************************************)
(* C7: once a stage has failed (empty window, first and last sample of a   *)
(* band or sub-band at one wavelength, no boundary candidate, or a         *)
(* full-band area of zero), the run is in an error outcome: no later stage *)
(* runs, and no ratio value is produced.                                   *)
(***************************************************************************)
StageFailed == err # NoError \/ (AreasBound /\ area_total.n = 0)

C7_FailureIsFinal ==
    StageFailed =>
        /\ ratio = NoRatio
        /\ plots = <<>>
        /\ pc \in {"raised", "ratio"}

(***************************************************************************)
(* C8: process_spectrum_dataframe on the already windowed, already sorted  *)
(* samples of a raw table gives the same band (samples, order, line        *)
(* values) as on the raw table itself, whatever its order and its          *)
(* out-of-window samples.                                                  *)
(***************************************************************************)
C8_FilteringIdempotent ==
    BandBuilt =>
        LET again == process_spectrum_dataframe(self, WindowedSorted(df_spectrum_orig))
        IN  /\ IsSorted(WindowedSorted(df_spectrum_orig))
            /\ again.err = NoError
            /\ Band(again.df) = Band(df_spectrum)

\* an unsorted raw table with samples outside the window
C8_Witness ==
    /\ BandBuilt
    /\ ~IsSorted(df_spectrum_orig)
    /\ Len(df_spectrum) < Len(df_spectrum_orig)

C10_OneSampleAtOrBelowStart ==
    (Acted165 /\ ind_max # -1) =>
        LET first == df_spectrum[ind_max + 1].wavelength
        IN  /\ first <= min_micron_165
            /\ first = min_micron_165 <=> ExactSet(df_spectrum) # {}
            /\ \A k \in (ind_max + 2)..Len(df_spectrum) :
                  df_spectrum[k].wavelength > min_micron_165
            /\ df_spectrum_165 # <<>> =>
                  /\ df_spectrum_165[1].wavelength = first
                  /\ \A j \in 2..Len(df_spectrum_165) :
                        df_spectrum_165[j].wavelength > min_micron_165

\* the fallback path: the boundary sample lies before the feature
C10_Witness ==
    /\ Acted165
    /\ ind_max # -1
    /\ df_spectrum[ind_max + 1].wavelength < min_micron_165
    /\ Len(df_spectrum_165) >= 3


=============================================================================
